---- MODULE Spec2Model ----
(***************************************************************************)
(* Model of the optical-flow script calculate_flow_msrvtt.py and of the    *)
(* frame loaders of dataset.py.                                            *)
(*                                                                         *)
(* A behaviour is one use of the repository, chosen in Init by `entry`:    *)
(*   "script"                 a run of calculate_flow_msrvtt.py            *)
(*   "estimate"               one call of estimate on two (3,H,W) tensors  *)
(*   "feature_extract_loader" one call of dataset.feature_extract_loader   *)
(*   "train_video_loader"     one call of dataset.train_video_loader       *)
(*                                                                         *)
(* A frame is identified by its temporal position in its video (0-based).  *)
(* A tensor is described by its shape <<channels, height, width>> (the     *)
(* batch dimension is always 1 and is left out).                           *)
(***************************************************************************)
EXTENDS Integers, Sequences, FiniteSets, TLC

\* ---------------------------------------------------------------- bounds
MaxVideos == 2
MaxFrames == 3
MaxDim == 34
MaxTrainFrames == 6
MaxInputFrames == 3
MaxRate == 2

\* ------------------------------------------------------ program constants
\* estimate rounds both sides up to a multiple of this
PreprocessMultiple == 32
\* number of the first JPEG file of a video (image_00001.jpg)
JpgFirstNumber == 1
\* width of the zero-padded numbers in file names
NameWidth == 5

Formats == {"hdf5", "jpg", "png"}
Supported == {"hdf5", "jpg"}

\* ------------------------------------------------------- Python helpers
\* list(range(start, stop, step)) for step >= 1
RECURSIVE PyRange(_, _, _)
PyRange(start, stop, step) ==
    IF start >= stop THEN <<>>
    ELSE <<start>> \o PyRange(start + step, stop, step)

\* seq[start::step] for start >= 0, step >= 1 (0-based start)
RECURSIVE PySliceFrom(_, _, _)
PySliceFrom(seq, start, step) ==
    IF start >= Len(seq) THEN <<>>
    ELSE <<seq[start + 1]>> \o PySliceFrom(seq, start + step, step)

\* seq[:n] for n >= 0
PyPrefix(seq, n) == IF n >= Len(seq) THEN seq ELSE SubSeq(seq, 1, n)

\* seq[k] with Python's 0-based and negative indexing
PyIndex(seq, k) == IF k < 0 THEN seq[Len(seq) + k + 1] ELSE seq[k + 1]

\* the set np.random.randint(low, high) draws from (empty: ValueError)
RandintRange(low, high) == low .. (high - 1)

Max(a, b) == IF a >= b THEN a ELSE b

\* int(math.floor(math.ceil(x / 32.0) * 32.0))
CeilDiv(a, b) == (a + b - 1) \div b
\* the rounding with floor in the place of ceil
PreprocessedFloor(x) == (x \div PreprocessMultiple) * PreprocessMultiple
Preprocessed(x) == CeilDiv(x, PreprocessMultiple) * PreprocessMultiple

\* decimal digits of a natural number, most significant first
RECURSIVE Digits(_)
Digits(n) == IF n < 10 THEN <<n>> ELSE Digits(n \div 10) \o <<n % 10>>

\* '{:05d}'.format(n): the digits, left-padded with zeros to five
RECURSIVE ZeroPad(_, _)
ZeroPad(ds, width) == IF Len(ds) >= width THEN ds ELSE ZeroPad(<<0>> \o ds, width)
Format05(n) == ZeroPad(Digits(n), NameWidth)

\* the number a file name of digits denotes (inverse reading of a name)
RECURSIVE NameValue(_)
NameValue(ds) ==
    IF Len(ds) = 0 THEN 0
    ELSE 10 * NameValue(SubSeq(ds, 1, Len(ds) - 1)) + ds[Len(ds)]

\* ------------------------------------------------------- tensor shapes
\* the result of an operation whose operands do not fit (a RuntimeError)
Err == <<>>
Shape(c, h, w) == <<c, h, w>>
IsShape(t) == Len(t) = 3

\* torch.nn.Conv2d(in_channels, out_channels, (kh, kw), stride, (ph, pw))
Conv2d(t, cin, cout, kh, kw, stride, ph, pw) ==
    IF t = Err THEN Err
    ELSE IF t[1] # cin \/ t[2] + 2 * ph < kh \/ t[3] + 2 * pw < kw THEN Err
    ELSE Shape(cout, (t[2] + 2 * ph - kh) \div stride + 1,
                     (t[3] + 2 * pw - kw) \div stride + 1)

\* torch.nn.ConvTranspose2d(in_channels, out_channels, k, stride, padding)
ConvTranspose2d(t, cin, cout, k, stride, p) ==
    IF t = Err THEN Err
    ELSE IF t[1] # cin THEN Err
    ELSE Shape(cout, (t[2] - 1) * stride - 2 * p + k, (t[3] - 1) * stride - 2 * p + k)

\* torch.nn.functional.interpolate(input, size=(h, w))
Interpolate(t, h, w) ==
    IF t = Err \/ h < 1 \/ w < 1 THEN Err ELSE Shape(t[1], h, w)

\* torch.cat(ts, 1): the channels add up, the other dimensions must agree
RECURSIVE Cat(_)
Cat(ts) ==
    IF Len(ts) = 1 THEN ts[1]
    ELSE LET rest == Cat(Tail(ts))
         IN  IF ts[1] = Err \/ rest = Err THEN Err
             ELSE IF ts[1][2] # rest[2] \/ ts[1][3] # rest[3] THEN Err
             ELSE Shape(ts[1][1] + rest[1], rest[2], rest[3])

\* a + b and a - b of two tensors (None + x is written 0.0 + x in the code)
Pointwise(a, b) ==
    IF a = Err \/ b = Err THEN Err
    ELSE IF a = b THEN a
    ELSE Err

\* Backward(tensorInput, tensorFlow): grid_sample of the input on the flow's grid
Backward(tensorInput, tensorFlow) ==
    IF tensorInput = Err \/ tensorFlow = Err THEN Err
    ELSE IF tensorFlow[1] # 2 THEN Err
    ELSE Shape(tensorInput[1], tensorFlow[2], tensorFlow[3])

\* correlation.FunctionCorrelation(tensorFirst, tensorSecond, intStride):
\* the 7 x 7 cost volume of two feature maps of one shape
FunctionCorrelation(first, second, intStride) ==
    IF first = Err \/ second = Err THEN Err
    ELSE IF first # second THEN Err
    ELSE Shape(49, CeilDiv(first[2], intStride), CeilDiv(first[3], intStride))

\* ------------------------------------------------------- Network tables
\* the per-level tables of Matching, Subpixel and Regularization,
\* indexed by intLevel 0 .. 6 (here 1 .. 7)
KernelOf(intLevel) == <<0, 0, 7, 5, 5, 3, 3>>[intLevel + 1]
PaddingOf(intLevel) == <<0, 0, 3, 2, 2, 1, 1>>[intLevel + 1]
SubpixelIn(intLevel) == <<0, 0, 130, 130, 194, 258, 386>>[intLevel + 1]
RegFeatIn(intLevel) == <<0, 0, 32, 64, 96, 128, 192>>[intLevel + 1]
RegMainIn(intLevel) == <<0, 0, 131, 131, 131, 131, 195>>[intLevel + 1]
RegDistOut(intLevel) == <<0, 0, 49, 25, 25, 9, 9>>[intLevel + 1]

\* Features.forward: the six feature maps [One, Two, Thr, Fou, Fiv, Six];
\* every convolution of a block after its first keeps the shape
Features(tensorInput) ==
    LET one == Conv2d(tensorInput, 3, 32, 7, 7, 1, 3, 3)
        two == Conv2d(Conv2d(Conv2d(one, 32, 32, 3, 3, 2, 1, 1),
                             32, 32, 3, 3, 1, 1, 1), 32, 32, 3, 3, 1, 1, 1)
        thr == Conv2d(Conv2d(two, 32, 64, 3, 3, 2, 1, 1), 64, 64, 3, 3, 1, 1, 1)
        fou == Conv2d(Conv2d(thr, 64, 96, 3, 3, 2, 1, 1), 96, 96, 3, 3, 1, 1, 1)
        fiv == Conv2d(fou, 96, 128, 3, 3, 2, 1, 1)
        six == Conv2d(fiv, 128, 192, 3, 3, 2, 1, 1)
    IN  <<one, two, thr, fou, fiv, six>>

\* moduleFeat of Matching and Subpixel: a 1x1 convolution at level 2 only
MatchFeat(intLevel, t) ==
    IF intLevel = 2 THEN Conv2d(t, 32, 64, 1, 1, 1, 0, 0) ELSE t

\* the four-convolution moduleMain of Matching and Subpixel
MainTo2(intLevel, t, cin) ==
    Conv2d(Conv2d(Conv2d(Conv2d(t, cin, 128, 3, 3, 1, 1, 1),
                         128, 64, 3, 3, 1, 1, 1), 64, 32, 3, 3, 1, 1, 1),
           32, 2, KernelOf(intLevel), KernelOf(intLevel), 1,
           PaddingOf(intLevel), PaddingOf(intLevel))

\* Matching.forward; None is the flow before the first level
None == <<"None">>
MatchingForward(intLevel, tensorFirst, tensorSecond, featFirst, featSecond, tensorFlow) ==
    LET f1 == MatchFeat(intLevel, featFirst)
        f2 == MatchFeat(intLevel, featSecond)
        \* moduleUpflow is None at level 6: calling it is a TypeError
        up == IF tensorFlow = None THEN None
              ELSE IF intLevel = 6 THEN Err
              ELSE ConvTranspose2d(tensorFlow, 2, 2, 4, 2, 1)
        warped == IF up = None THEN f2 ELSE Backward(f2, up)
        corr == IF intLevel >= 4
                THEN FunctionCorrelation(f1, warped, 1)
                ELSE ConvTranspose2d(FunctionCorrelation(f1, warped, 2), 49, 49, 4, 2, 1)
        main == MainTo2(intLevel, corr, 49)
    IN  IF up = None THEN main ELSE Pointwise(up, main)

\* Subpixel.forward
SubpixelForward(intLevel, tensorFirst, tensorSecond, featFirst, featSecond, tensorFlow) ==
    LET f1 == MatchFeat(intLevel, featFirst)
        f2 == MatchFeat(intLevel, featSecond)
        warped == IF tensorFlow = None THEN f2 ELSE Backward(f2, tensorFlow)
    IN  IF tensorFlow = None THEN Err  \* torch.cat of a None
        ELSE Pointwise(tensorFlow,
                       MainTo2(intLevel, Cat(<<f1, warped, tensorFlow>>), SubpixelIn(intLevel)))

\* Regularization.forward
RegularizationForward(intLevel, tensorFirst, tensorSecond, featFirst, featSecond, tensorFlow) ==
    IF tensorFlow = None THEN Err
    ELSE
    LET k == KernelOf(intLevel)
        p == PaddingOf(intLevel)
        diff == Pointwise(tensorFirst, Backward(tensorSecond, tensorFlow))
        \* .pow(2.0).sum(1, True).sqrt(): one channel
        tensorDifference == IF diff = Err THEN Err ELSE Shape(1, diff[2], diff[3])
        feat == IF intLevel >= 5 THEN featFirst
                ELSE Conv2d(featFirst, RegFeatIn(intLevel), 128, 1, 1, 1, 0, 0)
        m1 == Conv2d(Cat(<<tensorDifference, tensorFlow, feat>>),
                     RegMainIn(intLevel), 128, 3, 3, 1, 1, 1)
        m2 == Conv2d(m1, 128, 128, 3, 3, 1, 1, 1)
        m3 == Conv2d(m2, 128, 64, 3, 3, 1, 1, 1)
        m4 == Conv2d(m3, 64, 64, 3, 3, 1, 1, 1)
        m5 == Conv2d(m4, 64, 32, 3, 3, 1, 1, 1)
        m6 == Conv2d(m5, 32, 32, 3, 3, 1, 1, 1)
        tensorDist ==
            IF intLevel >= 5
            THEN Conv2d(m6, 32, RegDistOut(intLevel), k, k, 1, p, p)
            ELSE Conv2d(Conv2d(m6, 32, RegDistOut(intLevel), k, 1, 1, p, 0),
                        RegDistOut(intLevel), RegDistOut(intLevel), 1, k, 1, 0, p)
        \* unfold of one flow channel, k x k patches, viewed as tensorDist
        unfolded == IF tensorFlow = Err THEN Err
                    ELSE Shape(k * k, tensorFlow[2], tensorFlow[3])
        weighted == Pointwise(tensorDist, unfolded)
        tensorScaleX == Conv2d(weighted, RegDistOut(intLevel), 1, 1, 1, 1, 0, 0)
        tensorScaleY == Conv2d(weighted, RegDistOut(intLevel), 1, 1, 1, 1, 0, 0)
    IN  Cat(<<tensorScaleX, tensorScaleY>>)

\* the ModuleLists constructed from the coarsest level down
ModuleLevelsReversed == <<6, 5, 4, 3, 2>>
\* the levels the three ModuleLists are constructed for, in list order
ModuleLevels == <<2, 3, 4, 5, 6>>
moduleMatching == [j \in 1..Len(ModuleLevels) |-> [kind |-> "Matching", intLevel |-> ModuleLevels[j]]]
moduleSubpixel == [j \in 1..Len(ModuleLevels) |-> [kind |-> "Subpixel", intLevel |-> ModuleLevels[j]]]
moduleRegularization ==
    [j \in 1..Len(ModuleLevels) |-> [kind |-> "Regularization", intLevel |-> ModuleLevels[j]]]

\* the list Network.forward iterates over
ForwardLevels == <<-1, -2, -3, -4, -5>>
\* the three statements of the loop body, in program order
Stages == <<"Matching", "Subpixel", "Regularization">>

\* the feature pyramid of an image, each map tagged with its pyramid level
\* (tensorOne is level 1, ..., tensorSix is level 6)
FeaturePyramid(tensorInput) ==
    [k \in 1..6 |-> [level |-> k, shape |-> Features(tensorInput)[k]]]

\* the image pyramid: the image itself, then for intLevel in [1, 2, 3, 4, 5] the
\* last image resized to the size of the feature map at index intLevel
RECURSIVE ImagePyramid(_, _, _)
ImagePyramid(images, features, levels) ==
    IF levels = <<>> THEN images
    ELSE LET f == PyIndex(features, Head(levels))
             last == PyIndex(images, -1)
             img == [level |-> f.level,
                     shape |-> IF f.shape = Err THEN Err
                               ELSE Interpolate(last.shape, f.shape[2], f.shape[3])]
         IN  ImagePyramid(Append(images, img), features, Tail(levels))

\* the module a statement of the loop body applies at list index k
ModuleAt(stage, k) ==
    IF stage = "Matching" THEN PyIndex(moduleMatching, k)
    ELSE IF stage = "Subpixel" THEN PyIndex(moduleSubpixel, k)
    ELSE PyIndex(moduleRegularization, k)

\* module(tensorFirst, tensorSecond, tensorFeaturesFirst, tensorFeaturesSecond, tensorFlow)
Apply(mod, imgFirst, imgSecond, featFirst, featSecond, flow) ==
    IF mod.kind = "Matching"
    THEN MatchingForward(mod.intLevel, imgFirst, imgSecond, featFirst, featSecond, flow)
    ELSE IF mod.kind = "Subpixel"
    THEN SubpixelForward(mod.intLevel, imgFirst, imgSecond, featFirst, featSecond, flow)
    ELSE RegularizationForward(mod.intLevel, imgFirst, imgSecond, featFirst, featSecond, flow)

\* ------------------------------------------------------- frame loaders
\* the JPEG files of a video of n frames: image_00001.jpg .. image_<n>.jpg
JpgFiles(n) == {Format05(k) : k \in JpgFirstNumber .. (JpgFirstNumber + n - 1)}
\* the temporal position of the frame a JPEG file holds
JpgPosition(name) == NameValue(name) - JpgFirstNumber

\* the requests of a loop over frame numbers, up to and including the first
\* that fails (a missing file, a blob index out of range)
RECURSIVE UpToFailure(_, _)
UpToFailure(reqs, ok) ==
    IF reqs = <<>> THEN <<>>
    ELSE IF ~ok[1] THEN <<reqs[1]>>
    ELSE <<reqs[1]>> \o UpToFailure(Tail(reqs), Tail(ok))

AllOk(ok) == \A k \in 1..Len(ok) : ok[k]

\* what a loader call did: how it ended ("return", "exception", "exit"), the
\* files and blobs it asked for in order, and the clip it returned
Outcome(status, requests, positions) ==
    [status |-> status, requests |-> requests, clip |-> positions]

\* feature_extract_loader(loader, video_path, transform, temp_downsamp_rate,
\* image_file_format) on a video of n frames
FeatureExtractLoader(n, rate, format) ==
    IF format = "jpg" THEN
        LET numbers == PyRange(0, n, rate)
            names == [k \in 1..Len(numbers) |-> Format05(numbers[k])]
            ok == [k \in 1..Len(names) |-> names[k] \in JpgFiles(n)]
            reqs == [k \in 1..Len(names) |-> [kind |-> "image", name |-> names[k]]]
        IN  IF AllOk(ok)
            THEN Outcome("return", reqs, [k \in 1..Len(names) |-> JpgPosition(names[k])])
            ELSE Outcome("exception", UpToFailure(reqs, ok), <<>>)
    ELSE IF format = "hdf5" THEN
        LET numbers == PyRange(0, n, rate)
            ok == [k \in 1..Len(numbers) |-> numbers[k] \in 0..(n - 1)]
            reqs == [k \in 1..Len(numbers) |-> [kind |-> "blob", name |-> <<numbers[k]>>]]
            file == <<[kind |-> "h5py.File", name |-> <<>>]>>
        IN  IF AllOk(ok)
            THEN Outcome("return", file \o reqs, numbers)
            ELSE Outcome("exception", file \o UpToFailure(reqs, ok), <<>>)
    ELSE Outcome("exit", <<>>, <<>>)

\* ---------------------------------------------------------------- state
VARIABLES
    entry,              \* which use of the repository this behaviour is
    pc,                 \* the position of the program
    exitStatus,         \* the process's exit status, -1 while it runs
    gradEnabled,        \* torch's global gradient switch
    netState,           \* moduleNetwork: "absent", "train" or "eval"
    image_file_format,  \* --image_file_format / the loaders' argument
    temp_downsamp_rate, \* the loaders' argument
    video,              \* MSR_VTT.video: the number of frames of each video
    frameDims,          \* <<height, width>> of the dataset's images
    idx,                \* the index of the sample the main loop is at
    clip,               \* the clip a loader returned: frame positions
    i,                  \* the loop variable of the frame-pair loop
    opened,             \* every file and blob asked for so far, in order
    dirs,               \* the output directories made (by video index)
    saved,              \* the flow files written, in order
    n_frames,           \* the length of the video a loader is called on
    input_frames,       \* train_video_loader's argument
    drawRange,          \* <<low, high>> of the np.random.randint call
    start_frame,        \* the start frame drawn
    selected,           \* indices right after the slice, before padding
    indices,            \* train_video_loader's list
    it,                 \* the position of the for loop's list iterator
    results,            \* the outcome of feature_extract_loader per format
    tensorFirst,        \* estimate's arguments: [frame, shape]
    tensorSecond,
    pyramid,            \* forward's feature and image lists
    level,              \* the position in ForwardLevels (1-based), 0 outside
    stage,              \* the position in Stages (1-based), 0 outside
    tensorFlow,         \* forward's tensorFlow: [shape, by]
    calls,              \* the module applications of the forward pass so far
    estCalls,           \* the calls of estimate so far: <<first, second>>
    tensorOutput        \* what estimate returned last

gradVars == <<gradEnabled, netState>>
argVars == <<image_file_format, temp_downsamp_rate>>
dataVars == <<video, frameDims, idx, clip, i, dirs, saved>>
trainVars == <<n_frames, input_frames, drawRange, start_frame, selected, indices, it>>
estVars == <<tensorFirst, tensorSecond, pyramid, level, stage, tensorFlow, calls,
             estCalls, tensorOutput>>
vars == <<entry, pc, exitStatus, gradVars, argVars, dataVars, opened, trainVars,
          results, estVars>>

NoResult == Outcome("none", <<>>, <<>>)
NoTensor == [frame |-> -1, shape |-> Err]
NoOutput == [frame |-> <<>>, shape |-> Err]
NoFlow == [shape |-> None, by |-> <<"None", 0>>]
NoPyramid == [featuresFirst |-> <<>>, featuresSecond |-> <<>>,
              imagesFirst |-> <<>>, imagesSecond |-> <<>>]

\* the videos a dataset directory may hold
RECURSIVE SeqsUpTo(_, _)
SeqsUpTo(S, n) ==
    IF n = 0 THEN {<<>>}
    ELSE LET shorter == SeqsUpTo(S, n - 1)
         IN  shorter \cup {Append(q, x) : q \in {r \in shorter : Len(r) = n - 1}, x \in S}

\* the image sizes of the datasets the script is run on
ScriptDims == {<<1, 1>>, <<MaxDim, MaxDim - 1>>}

InitCommon ==
    /\ exitStatus = -1
    /\ idx = 0 /\ clip = <<>> /\ i = 0
    /\ opened = <<>> /\ dirs = {} /\ saved = <<>>
    /\ drawRange = <<0, 0>> /\ start_frame = 0
    /\ selected = <<>> /\ indices = <<>> /\ it = 0
    /\ results = [f \in Formats |-> NoResult]
    /\ pyramid = NoPyramid /\ level = 0 /\ stage = 0
    /\ tensorFlow = NoFlow /\ calls = <<>> /\ estCalls = <<>>
    /\ tensorOutput = NoOutput

\* python calculate_flow_msrvtt.py dataset_dir save_dir --image_file_format f
InitScript ==
    /\ entry = "script" /\ pc = "import"
    /\ gradEnabled = TRUE /\ netState = "absent"
    /\ image_file_format \in Formats
    /\ temp_downsamp_rate = 1
    /\ video \in SeqsUpTo(0..MaxFrames, MaxVideos)
    /\ frameDims \in ScriptDims
    /\ n_frames = 0 /\ input_frames = 0
    /\ tensorFirst = NoTensor /\ tensorSecond = NoTensor

\* estimate(tensorFirst, tensorSecond), the module being imported
InitEstimate ==
    /\ entry = "estimate" /\ pc = "estimate"
    /\ gradEnabled = FALSE /\ netState = "eval"
    /\ image_file_format = "hdf5" /\ temp_downsamp_rate = 1
    /\ video = <<>> /\ n_frames = 0 /\ input_frames = 0
    /\ frameDims \in (1..MaxDim) \X (1..MaxDim)
    /\ tensorFirst = [frame |-> 0, shape |-> Shape(3, frameDims[1], frameDims[2])]
    /\ tensorSecond = [frame |-> 1, shape |-> Shape(3, frameDims[1], frameDims[2])]

\* a call of one of dataset.py's loaders on a video of n_frames frames
InitLoader ==
    /\ entry \in {"feature_extract_loader", "train_video_loader"}
    /\ pc = "call"
    /\ gradEnabled = TRUE /\ netState = "absent"
    /\ image_file_format \in (IF entry = "train_video_loader" THEN Formats ELSE {"hdf5"})
    /\ temp_downsamp_rate \in 1..MaxRate
    /\ n_frames \in 0..MaxTrainFrames
    /\ input_frames \in (IF entry = "train_video_loader" THEN 1..MaxInputFrames ELSE {0})
    /\ video = <<>> /\ frameDims = <<0, 0>>
    /\ tensorFirst = NoTensor /\ tensorSecond = NoTensor

Init == InitCommon /\ (InitScript \/ InitEstimate \/ InitLoader)

\* ------------------------------------------------------- module import
\* torch.set_grad_enabled(False)
SetGradEnabled ==
    /\ pc = "import"
    /\ gradEnabled' = FALSE
    /\ pc' = "construct"
    /\ UNCHANGED <<entry, exitStatus, netState, argVars, dataVars, opened, trainVars,
                   results, estVars>>

\* Network(): a torch.nn.Module is in training mode when it is constructed
NetworkConstruct ==
    /\ pc = "construct"
    /\ netState' = "train"
    /\ pc' = "eval"
    /\ UNCHANGED <<entry, exitStatus, gradEnabled, argVars, dataVars, opened, trainVars,
                   results, estVars>>

\* the network moved to the GPU and left in training mode
NetworkNoEval ==
    /\ pc = "eval"
    /\ netState' = "train"
    /\ pc' = "main"
    /\ UNCHANGED <<entry, exitStatus, gradEnabled, argVars, dataVars, opened, trainVars,
                   results, estVars>>

\* .cuda().eval()
NetworkEval ==
    /\ pc = "eval"
    /\ netState' = "eval"
    /\ pc' = "main"
    /\ UNCHANGED <<entry, exitStatus, gradEnabled, argVars, dataVars, opened, trainVars,
                   results, estVars>>

\* ------------------------------------------------------------ __main__
\* MSR_VTT.__init__ without the check of the format
DatasetInitNoCheck ==
    /\ pc = "main"
    /\ pc' = "next"
    /\ UNCHANGED <<entry, exitStatus, gradVars, argVars, dataVars, opened, trainVars,
                   results, estVars>>

\* get_arguments(), MSR_VTT(...), DataLoader(...)
DatasetInit ==
    /\ pc = "main"
    /\ IF image_file_format \in {"hdf5", "jpg"}
       THEN /\ pc' = "next"
            /\ exitStatus' = exitStatus
       ELSE /\ pc' = "exit"
            /\ exitStatus' = 1
    /\ UNCHANGED <<entry, gradVars, argVars, dataVars, opened, trainVars, results, estVars>>

\* for sample in loader: MSR_VTT.__getitem__(idx), then the script makes the
\* video's output directory.  An exception of the worker is re-raised in the
\* main loop when it reaches that sample, so the samples are taken in order.
LoaderNext ==
    /\ pc = "next"
    /\ IF idx = Len(video)
       THEN \* print("Done!")
            /\ pc' = "done"
            /\ exitStatus' = 0
            /\ UNCHANGED <<clip, i, dirs, opened>>
       ELSE LET res == FeatureExtractLoader(video[idx + 1], temp_downsamp_rate,
                                            image_file_format)
            IN  /\ opened' = opened \o [k \in 1..Len(res.requests) |->
                                          [video |-> idx, request |-> res.requests[k]]]
                /\ IF res.status = "return" /\ Len(res.clip) > 0
                   THEN /\ clip' = res.clip
                        /\ dirs' = dirs \cup {idx}
                        /\ i' = 0
                        /\ pc' = "pairs"
                        /\ exitStatus' = exitStatus
                   ELSE \* the loader raised, or torch.stack of an empty list did
                        /\ pc' = "crash"
                        /\ exitStatus' = 1
                        /\ UNCHANGED <<clip, i, dirs>>
    /\ UNCHANGED <<entry, gradVars, argVars, video, frameDims, idx, saved, trainVars,
                   results, estVars>>

\* for i in range(T - 1): tensorFirst = clip[0, :, i], tensorSecond = clip[0, :, i + 1]
PairNext ==
    /\ pc = "pairs"
    /\ IF i < Len(clip) - 1
       THEN /\ tensorFirst' = [frame |-> clip[i + 1],
                               shape |-> Shape(3, frameDims[1], frameDims[2])]
            /\ tensorSecond' = [frame |-> clip[i + 2],
                                shape |-> Shape(3, frameDims[1], frameDims[2])]
            /\ pc' = "estimate"
            /\ idx' = idx
       ELSE /\ idx' = idx + 1
            /\ pc' = "next"
            /\ UNCHANGED <<tensorFirst, tensorSecond>>
    /\ UNCHANGED <<entry, exitStatus, gradVars, argVars, video, frameDims, clip, i, dirs,
                   saved, opened, trainVars, results, pyramid, level, stage, tensorFlow,
                   calls, estCalls, tensorOutput>>

\* the flow saved under the number of the second frame of the pair
SaveFlowOffByOne ==
    /\ pc = "save"
    /\ saved' = Append(saved, [video |-> idx, name |-> Format05(i + 1),
                               flow |-> tensorOutput])
    /\ i' = i + 1
    /\ pc' = "pairs"
    /\ UNCHANGED <<entry, exitStatus, gradVars, argVars, video, frameDims, idx, clip, dirs,
                   opened, trainVars, results, estVars>>

\* torch.save(tensorOutput, os.path.join(save_dir, '{:05}.flow'.format(i)))
SaveFlow ==
    /\ pc = "save"
    /\ saved' = Append(saved, [video |-> idx, name |-> Format05(i), flow |-> tensorOutput])
    /\ i' = i + 1
    /\ pc' = "pairs"
    /\ UNCHANGED <<entry, exitStatus, gradVars, argVars, video, frameDims, idx, clip, dirs,
                   opened, trainVars, results, estVars>>

\* ------------------------------------------------------------ estimate
\* estimate up to the call of moduleNetwork, and Network.forward up to its
\* refinement loop
EstimateBegin ==
    /\ pc = "estimate"
    /\ estCalls' = Append(estCalls, <<tensorFirst.frame, tensorSecond.frame>>)
    /\ LET intWidth == tensorFirst.shape[3]
           intHeight == tensorFirst.shape[2]
           intPreprocessedWidth == Preprocessed(intWidth)
           intPreprocessedHeight == Preprocessed(intHeight)
           first == Interpolate(Shape(3, intHeight, intWidth),
                                intPreprocessedHeight, intPreprocessedWidth)
           second == Interpolate(Shape(3, intHeight, intWidth),
                                 intPreprocessedHeight, intPreprocessedWidth)
           featuresFirst == FeaturePyramid(first)
           featuresSecond == FeaturePyramid(second)
       IN  IF \/ tensorFirst.shape[2] # tensorSecond.shape[2]
              \/ tensorFirst.shape[3] # tensorSecond.shape[3]
              \/ tensorFirst.shape[1] # 3 \/ tensorSecond.shape[1] # 3
           THEN \* an assert fails, or view(1, 3, intHeight, intWidth) does
                /\ pc' = "crash"
                /\ exitStatus' = 1
                /\ UNCHANGED <<pyramid, level, stage, tensorFlow, calls>>
           ELSE /\ pyramid' = [featuresFirst |-> featuresFirst,
                               featuresSecond |-> featuresSecond,
                               imagesFirst |->
                                   ImagePyramid(<<[level |-> 1, shape |-> first]>>,
                                                featuresFirst, <<1, 2, 3, 4, 5>>),
                               imagesSecond |->
                                   ImagePyramid(<<[level |-> 1, shape |-> second]>>,
                                                featuresSecond, <<1, 2, 3, 4, 5>>)]
                /\ tensorFlow' = NoFlow
                /\ calls' = <<>>
                /\ level' = 1
                /\ stage' = 1
                /\ pc' = "forward"
                /\ exitStatus' = exitStatus
    /\ UNCHANGED <<entry, gradVars, argVars, dataVars, opened, trainVars, results,
                   tensorFirst, tensorSecond, tensorOutput>>

\* one statement of the loop body of Network.forward:
\* tensorFlow = self.module<Stage>[intLevel](tensorFirst[intLevel], ...)
ForwardStage ==
    /\ pc = "forward"
    /\ LET intLevel == ForwardLevels[level]
           mod == ModuleAt(Stages[stage], intLevel)
           imgFirst == PyIndex(pyramid.imagesFirst, intLevel)
           imgSecond == PyIndex(pyramid.imagesSecond, intLevel)
           featFirst == PyIndex(pyramid.featuresFirst, intLevel)
           featSecond == PyIndex(pyramid.featuresSecond, intLevel)
           out == Apply(mod, imgFirst.shape, imgSecond.shape, featFirst.shape,
                        featSecond.shape, tensorFlow.shape)
       IN  /\ calls' = Append(calls, [module |-> mod,
                                      images |-> <<imgFirst.level, imgSecond.level>>,
                                      features |-> <<featFirst.level, featSecond.level>>,
                                      flowFrom |-> tensorFlow.by])
           /\ tensorFlow' = [shape |-> out, by |-> <<mod.kind, mod.intLevel>>]
           /\ IF out = Err
              THEN /\ pc' = "crash"
                   /\ exitStatus' = 1
                   /\ UNCHANGED <<level, stage>>
              ELSE /\ exitStatus' = exitStatus
                   /\ IF stage < Len(Stages)
                      THEN /\ stage' = stage + 1
                           /\ UNCHANGED <<level, pc>>
                      ELSE IF level < Len(ForwardLevels)
                      THEN /\ stage' = 1
                           /\ level' = level + 1
                           /\ pc' = pc
                      ELSE /\ stage' = 0
                           /\ level' = 0
                           /\ pc' = "resize"
    /\ UNCHANGED <<entry, gradVars, argVars, dataVars, opened, trainVars, results,
                   tensorFirst, tensorSecond, pyramid, estCalls, tensorOutput>>

\* return tensorFlow * 20.0; the resize to (intHeight, intWidth); the rescaling
\* of the two channels; return tensorFlow[0, :, :, :].cpu()
EstimateEnd ==
    /\ pc = "resize"
    /\ LET intWidth == tensorFirst.shape[3]
           intHeight == tensorFirst.shape[2]
           out == Interpolate(tensorFlow.shape, intHeight, intWidth)
       IN  /\ tensorOutput' = [frame |-> <<tensorFirst.frame, tensorSecond.frame>>,
                               shape |-> out]
           /\ pc' = IF entry = "script" THEN "save" ELSE "done"
    /\ UNCHANGED <<entry, exitStatus, gradVars, argVars, dataVars, opened, trainVars,
                   results, tensorFirst, tensorSecond, pyramid, level, stage, tensorFlow,
                   calls, estCalls>>

\* ------------------------------------------------- dataset.py's loaders
\* one call of feature_extract_loader with the given image_file_format on the
\* video, which is stored in both encodings; sys.exit(1) ends the caller
CallFeatureExtractLoader(format) ==
    /\ entry = "feature_extract_loader"
    /\ pc = "call"
    /\ results[format] = NoResult
    /\ LET res == FeatureExtractLoader(n_frames, temp_downsamp_rate, format)
       IN  /\ results' = [results EXCEPT ![format] = res]
           /\ opened' = opened \o [k \in 1..Len(res.requests) |->
                                     [video |-> 0, request |-> res.requests[k]]]
           /\ clip' = res.clip
           /\ IF res.status = "exit"
              THEN /\ pc' = "exit"
                   /\ exitStatus' = 1
              ELSE UNCHANGED <<pc, exitStatus>>
    /\ image_file_format' = format
    /\ UNCHANGED <<entry, gradVars, temp_downsamp_rate, video, frameDims, idx, i, dirs,
                   saved, trainVars, estVars>>

\* train_video_loader up to its padding loop: the count of the frames, the
\* draw of the start frame, the slice
TrainDraw ==
    /\ entry = "train_video_loader"
    /\ pc = "call"
    /\ IF image_file_format \notin {"jpg", "hdf5"}
       THEN /\ pc' = "exit"
            /\ exitStatus' = 1
            /\ UNCHANGED <<drawRange, start_frame, selected, indices, it, opened>>
       ELSE LET low == IF image_file_format = "jpg" THEN 1 ELSE 0
                high == Max(1, n_frames - input_frames * temp_downsamp_rate)
            IN  /\ drawRange' = <<low, high>>
                /\ opened' = IF image_file_format = "hdf5"
                             THEN <<[video |-> 0,
                                     request |-> [kind |-> "h5py.File", name |-> <<>>]]>>
                             ELSE opened
                /\ IF RandintRange(low, high) = {}
                   THEN \* ValueError: low >= high
                        /\ pc' = "exception"
                        /\ exitStatus' = exitStatus
                        /\ UNCHANGED <<start_frame, selected, indices, it>>
                   ELSE \E s \in RandintRange(low, high) :
                        /\ start_frame' = s
                        /\ indices' = PySliceFrom(PyRange(0, n_frames, 1), s,
                                                  temp_downsamp_rate)
                        /\ selected' = indices'
                        /\ it' = 0
                        /\ pc' = "pad"
                        /\ exitStatus' = exitStatus
    /\ UNCHANGED <<entry, gradVars, argVars, dataVars, n_frames, input_frames, results,
                   estVars>>

\* a padding loop that repeats the last index of the list
TrainPadRepeatLast ==
    /\ pc = "pad"
    /\ IF it >= Len(indices) \/ Len(indices) >= input_frames
       THEN /\ pc' = "load"
            /\ indices' = PyPrefix(indices, IF image_file_format = "jpg"
                                            THEN Len(indices) ELSE input_frames)
            /\ it' = it
       ELSE /\ indices' = Append(indices, indices[Len(indices)])
            /\ it' = it + 1
            /\ pc' = pc
    /\ UNCHANGED <<entry, exitStatus, gradVars, argVars, dataVars, opened, n_frames,
                   input_frames, drawRange, start_frame, selected, results, estVars>>

\* one step of `for i in indices:` of the loop padding; the list iterator
\* reads indices[it] of the list as it is now, and stops at its end
TrainPad ==
    /\ pc = "pad"
    /\ IF it >= Len(indices)
       THEN /\ pc' = "load"
            /\ UNCHANGED <<indices, it>>
       ELSE IF image_file_format = "jpg"
       THEN IF Len(indices) >= input_frames
            THEN /\ pc' = "load"
                 /\ UNCHANGED <<indices, it>>
            ELSE /\ indices' = Append(indices, indices[it + 1])
                 /\ it' = it + 1
                 /\ pc' = pc
       ELSE IF Len(indices) = input_frames
            THEN /\ pc' = "load"
                 /\ UNCHANGED <<indices, it>>
            ELSE IF Len(indices) > input_frames
            THEN /\ indices' = PyPrefix(indices, input_frames)
                 /\ pc' = "load"
                 /\ it' = it
            ELSE /\ indices' = Append(indices, indices[it + 1])
                 /\ it' = it + 1
                 /\ pc' = pc
    /\ UNCHANGED <<entry, exitStatus, gradVars, argVars, dataVars, opened, n_frames,
                   input_frames, drawRange, start_frame, selected, results, estVars>>

\* the loop that reads the frames of `indices`, and return clip
TrainLoad ==
    /\ pc = "load"
    /\ LET names == [k \in 1..Len(indices) |->
                        IF image_file_format = "jpg" THEN Format05(indices[k] + 1)
                        ELSE <<indices[k]>>]
           ok == [k \in 1..Len(indices) |->
                     IF image_file_format = "jpg" THEN names[k] \in JpgFiles(n_frames)
                     ELSE indices[k] \in 0..(n_frames - 1)]
           reqs == [k \in 1..Len(indices) |->
                       [video |-> 0,
                        request |-> [kind |-> IF image_file_format = "jpg" THEN "image"
                                              ELSE "blob",
                                     name |-> names[k]]]]
       IN  IF AllOk(ok)
           THEN /\ opened' = opened \o reqs
                /\ clip' = indices
                /\ pc' = "done"
           ELSE /\ opened' = opened \o UpToFailure(reqs, ok)
                /\ clip' = clip
                /\ pc' = "exception"
    /\ UNCHANGED <<entry, exitStatus, gradVars, argVars, video, frameDims, idx, i, dirs,
                   saved, trainVars, results, estVars>>

\* ----------------------------------------------------------------- spec
Next ==
    \/ SetGradEnabled
    \/ NetworkConstruct
    \/ NetworkEval
    \/ DatasetInit
    \/ LoaderNext
    \/ PairNext
    \/ EstimateBegin
    \/ ForwardStage
    \/ EstimateEnd
    \/ SaveFlow
    \/ \E format \in Formats : CallFeatureExtractLoader(format)
    \/ TrainDraw
    \/ TrainPad
    \/ TrainLoad

Spec == Init /\ [][Next]_vars

\* a call of train_video_loader is one thread of control that nothing
\* suspends: each of its steps is taken when it can be
FairSpec == Spec /\ WF_vars(TrainDraw \/ TrainPad \/ TrainLoad)

\* ========================================================== properties
Supports(format) == format \in Supported
FilesOf(v) == SelectSeq(saved, LAMBDA f : f.video = v)
InEstimate == pc \in {"forward", "resize", "save"}
InVideo == pc \in {"pairs", "estimate", "forward", "resize", "save"}

\* the files fs are count flows, named 00000, 00001, ... in the order they were
\* written, the k-th holding the flow from frame k to frame k + 1
FlowsInOrder(fs, count) ==
    /\ Len(fs) = count
    /\ \A k \in 1..Len(fs) :
        /\ Len(fs[k].name) = 5
        /\ NameValue(fs[k].name) = k - 1
        /\ fs[k].flow.frame = <<k - 1, k>>

\* C1: for a video whose clip has T frames the main loop calls estimate T-1
\* times, on (frame i, frame i+1) for i = 0 .. T-2 in increasing order, and
\* saves the i-th result as <i padded to 5 digits>.flow in the video's
\* directory; a processed video has exactly the files 00000 .. (T-2), a video
\* of at most one frame has none, and each file holds the flow of the call
\* it was written after.
MainLoopSavesConsecutiveFlows ==
    entry = "script" =>
        /\ \A v \in 0..(Len(video) - 1) :
              IF v < idx THEN FlowsInOrder(FilesOf(v), Max(video[v + 1] - 1, 0))
              ELSE IF v = idx /\ InVideo
              THEN /\ FlowsInOrder(FilesOf(v), i)
                   /\ i <= Len(clip) - 1
                   /\ Len(clip) = video[v + 1]
              ELSE IF v = idx /\ pc = "crash" THEN TRUE
              ELSE FilesOf(v) = <<>>
        /\ Len(estCalls) = Len(saved) + (IF InEstimate THEN 1 ELSE 0)
        /\ \A k \in 1..Len(saved) : saved[k].flow.frame = estCalls[k]
        /\ \A k \in 1..Len(estCalls) : estCalls[k][2] = estCalls[k][1] + 1

\* a finished run that processed a video of three frames and one of one frame
MainLoopWitness ==
    /\ entry = "script" /\ pc = "done"
    /\ video = <<3, 1>>
    /\ Len(FilesOf(0)) = 2 /\ Len(FilesOf(1)) = 0
    /\ Len(estCalls) = 2

\* C2: feature_extract_loader returns, for either supported format, the
\* frames at positions 0, r, 2r, ... below n_frames in increasing order,
\* ceil(n_frames / r) of them.
ExtractReturnsFramesInOrder ==
    entry = "feature_extract_loader" =>
        \A f \in Supported :
            results[f] # NoResult =>
                /\ results[f].status = "return"
                /\ Len(results[f].clip) = CeilDiv(n_frames, temp_downsamp_rate)
                /\ \A k \in 1..Len(results[f].clip) :
                      results[f].clip[k] = (k - 1) * temp_downsamp_rate

\* C3: called on the same video in both encodings, feature_extract_loader
\* selects the same frame positions in the same order, and every JPEG file
\* it asks for is one of image_00001.jpg .. image_<n_frames>.jpg.
EncodingsInterchangeable ==
    (entry = "feature_extract_loader"
        /\ results["jpg"] # NoResult /\ results["hdf5"] # NoResult) =>
        /\ results["jpg"].status = results["hdf5"].status
        /\ results["jpg"].clip = results["hdf5"].clip
        /\ \A k \in 1..Len(results["jpg"].requests) :
              NameValue(results["jpg"].requests[k].name) \in 1..n_frames

\* C4: estimate on two (3, H, W) tensors returns a (2, H, W) flow for every
\* H, W >= 1: it does not fail, the network runs on images whose sides are H
\* and W rounded up to multiples of 32, and the result is resized to H x W.
EstimateReturnsFlowOfInputSize ==
    /\ entry = "estimate" => pc # "crash"
    /\ pc = "forward" =>
          LET img == pyramid.imagesFirst[1].shape
          IN  /\ IsShape(img)
              /\ img = pyramid.imagesSecond[1].shape
              /\ img[1] = 3
              /\ img[2] % 32 = 0 /\ img[2] >= frameDims[1] /\ img[2] < frameDims[1] + 32
              /\ img[3] % 32 = 0 /\ img[3] >= frameDims[2] /\ img[3] < frameDims[2] + 32
    /\ tensorOutput # NoOutput =>
          tensorOutput.shape = <<2, frameDims[1], frameDims[2]>>

\* estimate returned for a height that is a multiple of 32 and a width that is not
EstimateShapeWitness ==
    /\ entry = "estimate" /\ pc = "done"
    /\ frameDims = <<32, 33>>
    /\ tensorOutput.shape = <<2, 32, 33>>

\* C5: train_video_loader returns a clip of exactly input_frames frames, in
\* both formats, for every n_frames >= 1 and every start frame.
TrainReturnsInputFrames ==
    (entry = "train_video_loader" /\ Supports(image_file_format)
        /\ n_frames >= 1 /\ pc = "done") =>
        Len(clip) = input_frames

\* C6: with an image_file_format other than 'hdf5' and 'jpg' the script ends
\* in MSR_VTT.__init__ with status 1 before anything is opened, estimated or
\* written, and each loader exits with status 1 without opening anything.
UnsupportedFormatExits ==
    /\ (entry = "script" /\ ~Supports(image_file_format)) =>
          /\ opened = <<>> /\ saved = <<>> /\ dirs = {} /\ estCalls = <<>>
          /\ pc \in {"import", "construct", "eval", "main", "exit"}
          /\ exitStatus = IF pc = "exit" THEN 1 ELSE -1
    /\ (entry = "train_video_loader" /\ ~Supports(image_file_format)) =>
          /\ opened = <<>> /\ clip = <<>>
          /\ pc \in {"call", "exit"}
          /\ exitStatus = IF pc = "exit" THEN 1 ELSE -1
    /\ entry = "feature_extract_loader" =>
          \A f \in Formats \ Supported :
              results[f] # NoResult =>
                  /\ results[f].status = "exit"
                  /\ results[f].requests = <<>>
                  /\ pc = "exit" /\ exitStatus = 1

\* the script, started on a directory of videos with --image_file_format png,
\* has ended
UnsupportedFormatWitness ==
    /\ entry = "script" /\ image_file_format = "png"
    /\ Len(video) > 0 /\ video[1] > 1
    /\ pc = "exit"

\* the k-th module application of a forward pass, k = 1 .. 15
ExpectedLevel(k) == 6 - ((k - 1) \div 3)
ExpectedStage(k) == <<"Matching", "Subpixel", "Regularization">>[((k - 1) % 3) + 1]

\* C7: the forward pass applies Matching, Subpixel, Regularization at levels
\* 6, 5, 4, 3, 2 in this order, each once; every application takes the flow
\* the one before it produced (none at the start), and uses the module
\* constructed for the level of the images and features it is given.
ForwardRefinesCoarseToFine ==
    /\ Len(calls) <= 15
    /\ \A k \in 1..Len(calls) :
          /\ calls[k].module = [kind |-> ExpectedStage(k), intLevel |-> ExpectedLevel(k)]
          /\ calls[k].images = <<ExpectedLevel(k), ExpectedLevel(k)>>
          /\ calls[k].features = <<ExpectedLevel(k), ExpectedLevel(k)>>
          /\ calls[k].flowFrom = IF k = 1 THEN <<"None", 0>>
                                 ELSE <<ExpectedStage(k - 1), ExpectedLevel(k - 1)>>
    /\ pc = "forward" => Len(calls) = 3 * (level - 1) + (stage - 1)
    /\ pc \in {"resize", "save"} =>
          /\ Len(calls) = 15
          /\ tensorFlow.by = <<"Regularization", 2>>

\* a forward pass that has applied all fifteen modules
ForwardWitness ==
    /\ pc = "resize"
    /\ Len(calls) = 15
    /\ calls[15].module.intLevel = 2

\* C8: gradients are off before the network exists, the network is in eval
\* mode once the module is imported, and both hold at every later point of
\* the run, in particular throughout every call of estimate.
InferenceOnly ==
    /\ netState # "absent" => ~gradEnabled
    /\ (entry \in {"script", "estimate"}
          /\ pc \in {"main", "next", "pairs", "estimate", "forward", "resize", "save",
                     "done", "crash", "exit"}) =>
          /\ ~gradEnabled
          /\ netState = "eval"

\* the script is inside a call of estimate on the second pair of a video
InferenceWitness ==
    /\ entry = "script" /\ pc = "forward"
    /\ i = 1 /\ level = 3
    /\ ~gradEnabled /\ netState = "eval"

\* C9: in both formats and for every n_frames >= 1 the range the start frame
\* is drawn from is not empty, the frames selected are start, start + r, ...
\* and every frame read exists in the video.
StartFrameValid ==
    (entry = "train_video_loader" /\ Supports(image_file_format)
        /\ n_frames >= 1 /\ pc # "call") =>
        /\ drawRange[1] < drawRange[2]
        /\ pc # "exception"
        /\ start_frame \in drawRange[1]..(drawRange[2] - 1)
        /\ \A k \in 1..Len(selected) :
              selected[k] = start_frame + (k - 1) * temp_downsamp_rate
        /\ \A k \in 1..Len(indices) : indices[k] \in 0..(n_frames - 1)

\* the list is the selected indices repeated cyclically, in their order
CyclicPadding ==
    entry = "train_video_loader" =>
        /\ selected = <<>> => indices = <<>>
        /\ \A k \in 1..Len(indices) :
              indices[k] = selected[((k - 1) % Len(selected)) + 1]
        /\ Len(indices) >= Len(selected) \/ Len(indices) = input_frames
        /\ (pc \in {"load", "done"} /\ Len(selected) > 0
              /\ Len(selected) < input_frames) => Len(indices) = input_frames

\* C10: the padding loop, which appends to the list it iterates over, ends
\* for every n_frames >= 0, input_frames >= 1 and rate >= 1 in both formats,
\* and what it appends repeats the selected indices cyclically in order.
PaddingTerminates ==
    /\ [](CyclicPadding)
    /\ (pc = "pad") ~> (pc = "load")

\* a call that padded a selection of two frames to three and returned
PaddingWitness ==
    /\ entry = "train_video_loader" /\ pc = "done"
    /\ Len(selected) = 2 /\ Len(indices) = 3
    /\ indices[3] = selected[1]

====
